---- MODULE Spec2Model ----
(***************************************************************************)
(* Model of src/src/App.tsx (Blob Ross): the random blob generator, the    *)
(* Bezier control-point deriver, the render transform, the liquify         *)
(* deformation and the pointer / toolbar event handlers.                   *)
(*                                                                         *)
(* Numbers.  A JavaScript number holding a coordinate is modelled as an    *)
(* integer count of 1/SCALE pixels; products and quotients are rounded to  *)
(* the nearest unit (RoundDiv), square roots are rounded down (ISqrt).     *)
(* cos and sin of the quarter-turn rotations are taken exactly (0, 1, -1); *)
(* cos and sin of the generator's angles come from tables in thousandths.  *)
(*                                                                         *)
(* React.  `shape`, `isInteracting` and `mode` are the component state     *)
(* with every queued updater applied; `view` is the snapshot of that state *)
(* captured by the closures of the last render, which is what the event    *)
(* handlers read.  Handlers of discrete events (mousedown, mouseup,        *)
(* touchstart, touchend, click) that update state are followed by a        *)
(* synchronous flush (Commit): the mount effect runs if it is still        *)
(* pending, then the component re-renders.  Updates from continuous events *)
(* (mousemove, touchmove, mouseleave) and from the mount effect running on *)
(* its own are rendered by a later Render step.                            *)
(***************************************************************************)
EXTENDS Integers, Sequences, FiniteSets, TLC

\* ------------------------------------------------------------------ bounds
MaxSteps == 6          \* handler, effect and render steps in one run
NumSeeds == 4          \* random streams Math.random may produce
MaxDrags == 2          \* move events of one drag in SpecLiquify
DeriveLen == 4         \* longest vertex sequence tried in SpecDerive

\* --------------------------------------------------------------- constants
SCALE == 10            \* model units per pixel
CANVAS_SIZE == 600
LIQUIFY_RADIUS == 60
LIQUIFY_STRENGTH_TENTHS == 8
TENSION_TENTHS == 3
NUM_COLORS == 7

\* the JavaScript null (a record, so that it compares with shapes and points)
NULL == [null |-> TRUE]

Px(n) == n * SCALE
Radius == Px(LIQUIFY_RADIUS)

Abs(a) == IF a < 0 THEN -a ELSE a

\* a / b rounded to the nearest integer (b > 0)
RoundDiv(a, b) == (2 * a + b) \div (2 * b)

RECURSIVE SqrtSearch(_, _, _)
SqrtSearch(n, lo, hi) ==
    IF lo >= hi THEN lo
    ELSE LET mid == (lo + hi + 1) \div 2
         IN  IF mid * mid <= n THEN SqrtSearch(n, mid, hi)
                               ELSE SqrtSearch(n, lo, mid - 1)

\* Math.sqrt, rounded down to a whole unit
ISqrt(n) == SqrtSearch(n, 0, 4 * Px(CANVAS_SIZE))

Pt(px, py) == [x |-> px, y |-> py]

\* --------------------------------------------------- computeBezierPoints
\* mutant: the previous neighbour of the first vertex is not wrapped
computeBezierPoints_noWrap(vertices) ==
    LET numPoints == Len(vertices)
    IN  [k \in 1..numPoints |->
           LET i    == k - 1
               p    == vertices[k]
               prev == vertices[IF i = 0 THEN 1 ELSE i]
               next == vertices[((i + 1) % numPoints) + 1]
               tx   == RoundDiv((next.x - prev.x) * TENSION_TENTHS, 10)
               ty   == RoundDiv((next.y - prev.y) * TENSION_TENTHS, 10)
           IN  [x |-> p.x, y |-> p.y,
                cp1x |-> p.x - tx, cp1y |-> p.y - ty,
                cp2x |-> p.x + tx, cp2y |-> p.y + ty]]

computeBezierPoints(vertices) ==
    LET numPoints == Len(vertices)
    IN  [k \in 1..numPoints |->
           LET i    == k - 1
               p    == vertices[k]
               prev == vertices[((i - 1 + numPoints) % numPoints) + 1]
               next == vertices[((i + 1) % numPoints) + 1]
               tx   == RoundDiv((next.x - prev.x) * TENSION_TENTHS, 10)
               ty   == RoundDiv((next.y - prev.y) * TENSION_TENTHS, 10)
           IN  [x |-> p.x, y |-> p.y,
                cp1x |-> p.x - tx, cp1y |-> p.y - ty,
                cp2x |-> p.x + tx, cp2y |-> p.y + ty]]

\* ---------------------------------------------------------- Math.random
\* The k-th value (k = 1, 2, ...) of random stream `seed`, in thousandths
\* of the unit interval [0, 1).
Random(seed, k) == (seed * 171 + k * 13 + 728) % 1000

\* Math.cos / Math.sin of (i / n) * 2 * PI in thousandths, n in 6..9
CosTable ==
    [n \in 6..9 |->
       CASE n = 6 -> <<1000, 500, -500, -1000, -500, 500>>
         [] n = 7 -> <<1000, 623, -223, -901, -901, -223, 623>>
         [] n = 8 -> <<1000, 707, 0, -707, -1000, -707, 0, 707>>
         [] n = 9 -> <<1000, 766, 174, -500, -940, -940, -500, 174, 766>>]

SinTable ==
    [n \in 6..9 |->
       CASE n = 6 -> <<0, 866, 866, 0, -866, -866>>
         [] n = 7 -> <<0, 782, 975, 434, -434, -975, -782>>
         [] n = 8 -> <<0, 707, 1000, 707, 0, -707, -1000, -707>>
         [] n = 9 -> <<0, 643, 985, 866, 342, -342, -866, -985, -643>>]

\* mutant: the vertex count is drawn from 6..10
generateRandomShape_upTo10(seed) ==
    LET numPoints  == (Random(seed, 1) * 5) \div 1000 + 6
        n          == IF numPoints > 9 THEN 9 ELSE numPoints
        centerX    == Px(CANVAS_SIZE) \div 2
        centerY    == Px(CANVAS_SIZE) \div 2
        baseRadius == Px(CANVAS_SIZE) \div 4
        vertices   ==
            [k \in 1..numPoints |->
               LET radius == baseRadius
                     + RoundDiv((Random(seed, k + 1) - 500) * baseRadius * 12,
                                10000)
               IN  Pt(centerX + RoundDiv(CosTable[n][((k - 1) % n) + 1] * radius,
                                         1000),
                      centerY + RoundDiv(SinTable[n][((k - 1) % n) + 1] * radius,
                                         1000))]
        color      == (Random(seed, numPoints + 2) * NUM_COLORS) \div 1000 + 1
    IN  [vertices |-> vertices,
         points   |-> computeBezierPoints(vertices),
         color    |-> color,
         rotation |-> 0,
         flipX    |-> FALSE,
         flipY    |-> FALSE]

\* --------------------------------------------------- generateRandomShape
generateRandomShape(seed) ==
    LET numPoints  == (Random(seed, 1) * 4) \div 1000 + 6
        centerX    == Px(CANVAS_SIZE) \div 2
        centerY    == Px(CANVAS_SIZE) \div 2
        baseRadius == Px(CANVAS_SIZE) \div 4
        vertices   ==
            [k \in 1..numPoints |->
               LET radius == baseRadius
                     + RoundDiv((Random(seed, k + 1) - 500) * baseRadius * 12,
                                10000)
               IN  Pt(centerX + RoundDiv(CosTable[numPoints][k] * radius, 1000),
                      centerY + RoundDiv(SinTable[numPoints][k] * radius, 1000))]
        color      == (Random(seed, numPoints + 2) * NUM_COLORS) \div 1000 + 1
    IN  [vertices |-> vertices,
         points   |-> computeBezierPoints(vertices),
         color    |-> color,
         rotation |-> 0,
         flipX    |-> FALSE,
         flipY    |-> FALSE]

\* ------------------------------------------------- quarter-turn cos / sin
CosDeg(d) == CASE d % 360 = 0   -> 1
               [] d % 360 = 90  -> 0
               [] d % 360 = 180 -> -1
               [] d % 360 = 270 -> 0

SinDeg(d) == CASE d % 360 = 0   -> 0
               [] d % 360 = 90  -> 1
               [] d % 360 = 180 -> 0
               [] d % 360 = 270 -> -1

\* ------------------------------------------- drawShape: forward transform
\* translate(c); rotate(rotation); scale(flip signs); translate(-c): a local
\* point p is drawn at c + R(rotation) * S * (p - c).
forwardTransform(s, p) ==
    LET tx == p.x - Px(CANVAS_SIZE) \div 2
        ty == p.y - Px(CANVAS_SIZE) \div 2
        sx == IF s.flipX THEN -tx ELSE tx
        sy == IF s.flipY THEN -ty ELSE ty
        rx == sx * CosDeg(s.rotation) - sy * SinDeg(s.rotation)
        ry == sx * SinDeg(s.rotation) + sy * CosDeg(s.rotation)
    IN  Pt(rx + Px(CANVAS_SIZE) \div 2, ry + Px(CANVAS_SIZE) \div 2)

\* mutant: the loop stops one short and leaves the closing to closePath
drawPath_open(points) ==
    [start |-> Pt(points[1].x, points[1].y),
     segs  |-> [k \in 1..(Len(points) - 1) |->
                  LET curr == points[k]
                      next == points[k + 1]
                  IN  [c1x |-> curr.cp2x, c1y |-> curr.cp2y,
                       c2x |-> next.cp1x, c2y |-> next.cp1y,
                       x |-> next.x, y |-> next.y]]]

\* -------------------------------------------------- drawShape: the path
\* moveTo(first), then one bezierCurveTo per point
drawPath(points) ==
    [start |-> Pt(points[1].x, points[1].y),
     segs  |-> [k \in 1..Len(points) |->
                  LET i    == k - 1
                      curr == points[k]
                      next == points[((i + 1) % Len(points)) + 1]
                  IN  [c1x |-> curr.cp2x, c1y |-> curr.cp2y,
                       c2x |-> next.cp1x, c2y |-> next.cp1y,
                       x |-> next.x, y |-> next.y]]]

\* mutant: the rotation is not negated
transformCoords_sameAngle(s, p) ==
    LET tx  == p.x - Px(CANVAS_SIZE) \div 2
        ty  == p.y - Px(CANVAS_SIZE) \div 2
        rad == s.rotation
        rx  == tx * CosDeg(rad) - ty * SinDeg(rad)
        ry  == tx * SinDeg(rad) + ty * CosDeg(rad)
        sx  == IF s.flipX THEN -rx ELSE rx
        sy  == IF s.flipY THEN -ry ELSE ry
    IN  Pt(sx + Px(CANVAS_SIZE) \div 2, sy + Px(CANVAS_SIZE) \div 2)

\* ------------------------------------- handleMouseMove: transformCoords
transformCoords(s, p) ==
    LET tx  == p.x - Px(CANVAS_SIZE) \div 2
        ty  == p.y - Px(CANVAS_SIZE) \div 2
        rad == -s.rotation
        rx  == tx * CosDeg(rad) - ty * SinDeg(rad)
        ry  == tx * SinDeg(rad) + ty * CosDeg(rad)
        sx  == IF s.flipX THEN -rx ELSE rx
        sy  == IF s.flipY THEN -ry ELSE ry
    IN  Pt(sx + Px(CANVAS_SIZE) \div 2, sy + Px(CANVAS_SIZE) \div 2)

\* Math.sqrt(Math.pow(v.x - c.x, 2) + Math.pow(v.y - c.y, 2))
Dist(v, c) == ISqrt((v.x - c.x) * (v.x - c.x) + (v.y - c.y) * (v.y - c.y))

\* mutant: the strength factor is left out
liquifyVertex_fullStrength(v, localCoords, ldx, ldy) ==
    LET dist == Dist(v, localCoords)
    IN  IF dist < Radius
        THEN Pt(v.x + RoundDiv(ldx * (Radius - dist), Radius),
                v.y + RoundDiv(ldy * (Radius - dist), Radius))
        ELSE v

\* mutant: the distance is taken from the previous point of the drag
liquifyVertex_fromPrev(v, localCoords, ldx, ldy) ==
    LET dist == Dist(v, Pt(localCoords.x - ldx, localCoords.y - ldy))
    IN  IF dist < Radius
        THEN Pt(v.x + RoundDiv(ldx * (Radius - dist) * LIQUIFY_STRENGTH_TENTHS,
                               Radius * 10),
                v.y + RoundDiv(ldy * (Radius - dist) * LIQUIFY_STRENGTH_TENTHS,
                               Radius * 10))
        ELSE v

\* -------------------------------- handleMouseMove: the vertices.map body
liquifyVertex(v, localCoords, ldx, ldy) ==
    LET dist == Dist(v, localCoords)
    IN  IF dist < Radius
        THEN Pt(v.x + RoundDiv(ldx * (Radius - dist) * LIQUIFY_STRENGTH_TENTHS,
                               Radius * 10),
                v.y + RoundDiv(ldy * (Radius - dist) * LIQUIFY_STRENGTH_TENTHS,
                               Radius * 10))
        ELSE v

\* mutant: filter instead of map, only the vertices in reach are kept
newVertices_filter(s, coords, prevPos) ==
    LET localCoords     == transformCoords(s, coords)
        prevLocalCoords == transformCoords(s, prevPos)
        ldx             == localCoords.x - prevLocalCoords.x
        ldy             == localCoords.y - prevLocalCoords.y
        moved           == [k \in 1..Len(s.vertices) |->
                              liquifyVertex(s.vertices[k], localCoords,
                                            ldx, ldy)]
    IN  SelectSeq(moved, LAMBDA v : Dist(v, localCoords) < Radius)

newVertices(s, coords, prevPos) ==
    LET localCoords     == transformCoords(s, coords)
        prevLocalCoords == transformCoords(s, prevPos)
        ldx             == localCoords.x - prevLocalCoords.x
        ldy             == localCoords.y - prevLocalCoords.y
    IN  [k \in 1..Len(s.vertices) |->
           liquifyVertex(s.vertices[k], localCoords, ldx, ldy)]

\* ------------------------------------------------------------- the state
VARIABLES
    shape,          \* useState<ShapeConfig | null>: NULL or a shape record
    isInteracting,  \* useState(false)
    mode,           \* useState<InteractionMode>('draw')
    view,           \* the state snapshot the handlers of the last render see
    lastPos,        \* lastPos.current: NULL or a point
    ink,            \* top canvas raster: the sample points that carry ink
    ctx,            \* top canvas 2d context: current path and stroke settings
    effectPending,  \* the mount effect (useEffect) has not run yet
    steps,          \* handler, effect and render steps taken so far
    last            \* history: the last handler that ran

vars == <<shape, isInteracting, mode, view, lastPos, ink, ctx,
          effectPending, steps, last>>

Modes == {"draw", "erase", "liquify"}

\* Pointer coordinates the events may carry (canvas pixels, scaled)
Coords == {Pt(Px(450), Px(150)), Pt(Px(460), Px(150))}

\* A finer set of pointer coordinates, used by SpecLiquify
DragCoords == Coords \cup {Pt(Px(450), Px(180)), Pt(Px(450), Px(210))}

Seeds == 0..(NumSeeds - 1)

Snapshot(s, i, m) == [shape |-> s, isInteracting |-> i, mode |-> m]

\* History of the last step: the handler that ran, whether it replaced the
\* vertices or changed the raster, and whether no move has been handled
\* since the last press.
Hist(op, ran, fresh) == [op |-> op, ran |-> ran, fresh |-> fresh]

Init ==
    /\ shape = NULL
    /\ isInteracting = FALSE
    /\ mode = "draw"
    /\ view = Snapshot(NULL, FALSE, "draw")
    /\ lastPos = NULL
    /\ ink = {}
    /\ ctx = [path |-> {}, hasLine |-> FALSE,
              op |-> "source-over"]
    /\ effectPending = TRUE
    /\ steps = 0
    /\ last = Hist("init", FALSE, FALSE)

\* ctx.stroke(): paint (or, for destination-out, wipe) the current path
Stroke(raster, c) ==
    IF ~c.hasLine THEN raster
    ELSE IF c.op = "destination-out" THEN raster \ c.path
    ELSE raster \cup c.path

\* ctx.lineTo(p)
LineTo(c, p) ==
    IF c.path = {} THEN [c EXCEPT !.path = {p}]
    ELSE [c EXCEPT !.path = @ \cup {p}, !.hasLine = TRUE]

\* mutant: the test of the effect is inverted, nothing is generated
MountEffect_inverted(seed) ==
    /\ effectPending
    /\ effectPending' = FALSE
    /\ shape' = shape
    /\ last' = [op |-> "effect", ran |-> FALSE, fresh |-> last.fresh]
    /\ UNCHANGED <<isInteracting, mode, view, lastPos, ink, ctx>>

\* ----------------------------------------------------------- useEffect
\* The effect of the first render: that render saw shape = null.
MountEffect(seed) ==
    /\ effectPending
    /\ effectPending' = FALSE
    /\ shape' = generateRandomShape(seed)
    /\ last' = Hist("effect", FALSE, last.fresh)
    /\ UNCHANGED <<isInteracting, mode, view, lastPos, ink, ctx>>

\* A re-render scheduled by a state update: the handlers are re-created
\* over the current state.
Render ==
    /\ view # Snapshot(shape, isInteracting, mode)
    /\ view' = Snapshot(shape, isInteracting, mode)
    /\ last' = Hist("render", FALSE, last.fresh)
    /\ UNCHANGED <<shape, isInteracting, mode, lastPos, ink, ctx,
                   effectPending>>

\* The synchronous flush after a discrete event handler that left the
\* state (ns, i, m): a mount effect still pending runs first (its render
\* saw shape = null, so it generates a shape), then the component renders.
Commit(ns, i, m) ==
    /\ IF effectPending
       THEN \E seed \in Seeds : shape' = generateRandomShape(seed)
       ELSE shape' = ns
    /\ effectPending' = FALSE
    /\ isInteracting' = i
    /\ mode' = m
    /\ view' = Snapshot(shape', i, m)

\* mutant: the press coordinate is not recorded
handleMouseDown_noSample(coords) ==
    /\ lastPos' = lastPos
    /\ Commit(shape, TRUE, mode)
    /\ IF view.mode = "draw" \/ view.mode = "erase"
       THEN ctx' = [path |-> {coords}, hasLine |-> FALSE,
                    op |-> IF view.mode = "erase" THEN "destination-out"
                                                  ELSE "source-over"]
       ELSE ctx' = ctx
    /\ last' = [op |-> "down", ran |-> FALSE, fresh |-> TRUE]
    /\ UNCHANGED ink

\* ------------------------------------------------------ handleMouseDown
\* mutant: the mode gate is missing
inkMode_any(m) == TRUE

\* mode === 'draw' || mode === 'erase'
inkMode(m) == m = "draw" \/ m = "erase"

handleMouseDown(coords) ==
    /\ lastPos' = coords
    /\ Commit(shape, TRUE, mode)
    /\ IF inkMode(view.mode)
       THEN ctx' = IF view.mode = "erase"
                   THEN [path |-> {coords}, hasLine |-> FALSE,
                         op |-> "destination-out"]
                   ELSE [path |-> {coords}, hasLine |-> FALSE,
                         op |-> "source-over"]
       ELSE ctx' = ctx
    /\ last' = Hist("down", FALSE, TRUE)
    /\ UNCHANGED ink

\* ------------------------------------------------------ handleMouseMove
\* mutant: the new shape is built afresh, the transform is reset
liquifyUpdater_reset(prev, nv) ==
    IF prev # NULL
    THEN [vertices |-> nv, points |-> computeBezierPoints(nv),
          color |-> prev.color, rotation |-> 0,
          flipX |-> FALSE, flipY |-> FALSE]
    ELSE NULL

\* mutant: the control points are not recomputed
liquifyUpdater_stalePoints(prev, nv) ==
    IF prev # NULL THEN [prev EXCEPT !.vertices = nv] ELSE NULL

\* mutant: the null test is inverted
liquifyUpdater_inverted(prev, nv) ==
    IF prev = NULL
    THEN [prev EXCEPT !.vertices = nv, !.points = computeBezierPoints(nv)]
    ELSE NULL

\* the updater passed to setShape by a liquify move
liquifyUpdater(prev, nv) ==
    IF prev # NULL
    THEN [prev EXCEPT !.vertices = nv, !.points = computeBezierPoints(nv)]
    ELSE NULL

handleMouseMove(coords) ==
    /\ IF ~view.isInteracting
       THEN /\ last' = Hist("move", FALSE, last.fresh)
            /\ UNCHANGED <<shape, ink, ctx, lastPos>>
       ELSE /\ lastPos' = coords
            /\ IF inkMode(view.mode)
               THEN /\ ctx' = LineTo(ctx, coords)
                    /\ ink' = Stroke(ink, ctx')
                    /\ last' = Hist("move", ink' # ink, FALSE)
                    /\ UNCHANGED shape
               ELSE IF view.mode = "liquify" /\ view.shape # NULL
                                             /\ lastPos # NULL
               THEN /\ shape' = liquifyUpdater(shape,
                                       newVertices(view.shape, coords, lastPos))
                    /\ last' = Hist("move", TRUE, FALSE)
                    /\ UNCHANGED <<ink, ctx>>
               ELSE /\ last' = Hist("move", FALSE, FALSE)
                    /\ UNCHANGED <<shape, ink, ctx>>
    /\ UNCHANGED <<isInteracting, mode, view, effectPending>>

\* -------------------------------------------------------- handleMouseUp
\* onMouseUp / onTouchEnd: discrete, rendered at once
handleMouseUp ==
    /\ Commit(shape, FALSE, mode)
    /\ lastPos' = NULL
    /\ last' = Hist("up", FALSE, FALSE)
    /\ UNCHANGED <<ink, ctx>>

\* onMouseLeave: the same handler, rendered later
handleMouseLeave ==
    /\ isInteracting' = FALSE
    /\ lastPos' = NULL
    /\ last' = Hist("leave", FALSE, FALSE)
    /\ UNCHANGED <<shape, mode, view, ink, ctx, effectPending>>

\* mutant: the shape canvas is cleared instead of the ink canvas
clearDrawing_bottom ==
    /\ ink' = ink
    /\ last' = [op |-> "clear", ran |-> ink # {}, fresh |-> last.fresh]
    /\ UNCHANGED <<shape, isInteracting, mode, view, lastPos, ctx,
                   effectPending>>

\* --------------------------------------------------------- clearDrawing
\* (no state update: nothing is flushed or rendered)
clearDrawing ==
    /\ ink' = {}
    /\ last' = Hist("clear", ink # {}, last.fresh)
    /\ UNCHANGED <<shape, isInteracting, mode, view, lastPos, ctx,
                   effectPending>>

\* ---------------------------------- rotateShape / flipHorizontal / ...
\* mutant: the rotation is not wrapped at 360
rotateUpdater_noWrap(prev) ==
    IF prev # NULL THEN [prev EXCEPT !.rotation = prev.rotation + 90] ELSE NULL

rotateUpdater(prev) ==
    IF prev # NULL
    THEN [prev EXCEPT !.rotation = (prev.rotation + 90) % 360]
    ELSE NULL

\* mutant: the horizontal flip also toggles the vertical flag
flipXUpdater_both(prev) ==
    IF prev # NULL
    THEN [prev EXCEPT !.flipX = ~prev.flipX, !.flipY = ~prev.flipY]
    ELSE NULL

flipXUpdater(prev) ==
    IF prev # NULL THEN [prev EXCEPT !.flipX = ~prev.flipX] ELSE NULL

flipYUpdater(prev) ==
    IF prev # NULL THEN [prev EXCEPT !.flipY = ~prev.flipY] ELSE NULL

rotateShape ==
    /\ Commit(rotateUpdater(shape), isInteracting, mode)
    /\ last' = Hist("rotate", FALSE, last.fresh)
    /\ UNCHANGED <<lastPos, ink, ctx>>

flipHorizontal ==
    /\ Commit(flipXUpdater(shape), isInteracting, mode)
    /\ last' = Hist("flipH", FALSE, last.fresh)
    /\ UNCHANGED <<lastPos, ink, ctx>>

flipVertical ==
    /\ Commit(flipYUpdater(shape), isInteracting, mode)
    /\ last' = Hist("flipV", FALSE, last.fresh)
    /\ UNCHANGED <<lastPos, ink, ctx>>

\* ----------------------------------------------- toolbar: mode buttons
setMode(m) ==
    /\ Commit(shape, isInteracting, m)
    /\ last' = Hist("mode", FALSE, last.fresh)
    /\ UNCHANGED <<lastPos, ink, ctx>>

\* ------------------- btn-new-shape: generateRandomShape(); clearDrawing()
newShape(seed) ==
    /\ Commit(generateRandomShape(seed), isInteracting, mode)
    /\ ink' = {}
    /\ last' = Hist("newShape", ink # {}, last.fresh)
    /\ UNCHANGED <<lastPos, ctx>>

Step ==
    \/ \E seed \in Seeds : MountEffect(seed)
    \/ Render
    \/ \E c \in Coords : handleMouseDown(c)
    \/ \E c \in Coords : handleMouseMove(c)
    \/ handleMouseUp
    \/ handleMouseLeave
    \/ clearDrawing
    \/ rotateShape
    \/ flipHorizontal
    \/ flipVertical
    \/ \E m \in Modes : setMode(m)
    \/ \E seed \in Seeds : newShape(seed)

\* Runs are cut after MaxSteps steps.
Next == steps < MaxSteps /\ steps' = steps + 1 /\ Step

Spec == Init /\ [][Next]_vars

\* --------------------------------------------------------------- SpecLive
\* The same program with the scheduling React guarantees: the passive
\* effect of the first render does run, whatever the user does or does not
\* do (it is not counted against the run length).
EffectStep == (\E seed \in Seeds : MountEffect(seed)) /\ UNCHANGED steps

NextLive == Next \/ EffectStep

SpecLive == Init /\ [][NextLive]_vars /\ WF_vars(EffectStep)

\* ------------------------------------------------------------ SpecLiquify
\* One drag in liquify mode over a generated, rotated and flipped shape:
\* the press has been handled at one of DragCoords, the moves follow.
InitLiquify ==
    /\ \E seed \in Seeds, r \in {0, 90, 180, 270}, fx \in BOOLEAN,
          fy \in BOOLEAN :
           shape = [generateRandomShape(seed) EXCEPT
                      !.rotation = r, !.flipX = fx, !.flipY = fy]
    /\ isInteracting = TRUE
    /\ mode = "liquify"
    /\ view = Snapshot(shape, TRUE, "liquify")
    /\ lastPos \in DragCoords
    /\ ink = {}
    /\ ctx = [path |-> {}, hasLine |-> FALSE, op |-> "source-over"]
    /\ effectPending = FALSE
    /\ steps = 0
    /\ last = Hist("down", FALSE, TRUE)

NextLiquify ==
    /\ steps < MaxDrags
    /\ steps' = steps + 1
    /\ \/ \E c \in DragCoords : handleMouseMove(c)
       \/ Render

SpecLiquify == InitLiquify /\ [][NextLiquify]_vars

\* ------------------------------------------- computeBezierPoints alone
\* vertex positions the deriver is tried on
DeriveGrid == {Pt(0, 0), Pt(1005, 370), Pt(330, 2015), Pt(-45, 1000)}

\* every vertex sequence of length 3..DeriveLen over the grid, not yet
\* derived
InitDerive ==
    /\ \E n \in 3..DeriveLen : \E vs \in [1..n -> DeriveGrid] :
           shape = [vertices |-> vs, points |-> <<>>, color |-> 1,
                    rotation |-> 0, flipX |-> FALSE, flipY |-> FALSE]
    /\ isInteracting = FALSE
    /\ mode = "draw"
    /\ view = Snapshot(NULL, FALSE, "draw")
    /\ lastPos = NULL
    /\ ink = {}
    /\ ctx = [path |-> {}, hasLine |-> FALSE, op |-> "source-over"]
    /\ effectPending = FALSE
    /\ steps = 0
    /\ last = Hist("init", FALSE, FALSE)

Derive ==
    /\ shape.points = <<>>
    /\ shape' = [shape EXCEPT !.points = computeBezierPoints(shape.vertices)]
    /\ last' = Hist("derive", TRUE, FALSE)
    /\ UNCHANGED <<isInteracting, mode, view, lastPos, ink, ctx,
                   effectPending, steps>>

SpecDerive == InitDerive /\ [][Derive]_vars

\* ======================================================================
\* Properties
\* ======================================================================
Quarter == {0, 90, 180, 270}

\* the step just taken was a liquify move that replaced the vertices
LiquifyStep == last'.op = "move" /\ view.mode = "liquify" /\ last'.ran

\* the step just taken builds a new shape (mount effect or New Shape)
GenerateStep == last'.op = "effect" \/ last'.op = "newShape"

\* local points on which the two transforms are compared: a grid over the
\* canvas and the vertices of the current shape
TestPoints(s) ==
    {Pt(Px(gx), Px(gy)) : gx \in {0, 150, 299, 300, 450, 600},
                          gy \in {0, 150, 299, 300, 450, 600}}
    \cup {s.vertices[k] : k \in 1..Len(s.vertices)}

\* C1: for the shape's rotation (0, 90, 180 or 270) and flip flags, the
\* liquify inverse mapping transformCoords undoes the renderer's forward
\* transform on every local point.
C1_TransformInverse ==
    shape # NULL =>
        \A p \in TestPoints(shape) :
            transformCoords(shape, forwardTransform(shape, p)) = p

C1_Witness ==
    /\ shape # NULL
    /\ shape.rotation = 270
    /\ shape.flipX
    /\ ~shape.flipY

\* C2: no step other than a regenerate changes the number of vertices, and
\* a liquify move leaves vertex i within the drag's displacement of vertex
\* i of the snapshot it was computed from (no vertex is added, removed or
\* moved to another index); every other step leaves the vertices alone.
C2_VerticesKept ==
    [][(shape # NULL /\ ~GenerateStep) =>
          /\ shape' # NULL
          /\ Len(shape'.vertices) = Len(shape.vertices)
          /\ IF LiquifyStep
             THEN LET d == Pt(lastPos'.x - lastPos.x, lastPos'.y - lastPos.y)
                      m == IF Abs(d.x) > Abs(d.y) THEN Abs(d.x) ELSE Abs(d.y)
                  IN  \A k \in 1..Len(shape.vertices) :
                         /\ Abs(shape'.vertices[k].x
                                  - view.shape.vertices[k].x) <= m
                         /\ Abs(shape'.vertices[k].y
                                  - view.shape.vertices[k].y) <= m
             ELSE shape'.vertices = shape.vertices]_vars

C2_Witness ==
    /\ last.op = "move"
    /\ last.ran
    /\ mode = "liquify"
    /\ shape # NULL
    /\ shape.rotation = 90
    /\ shape.vertices # generateRandomShape(0).vertices
    /\ Len(shape.vertices) = 8

\* C3: in a liquify step a vertex at distance dist from the local cursor
\* point moves by d * (1 - dist/60) * 0.8 (to the nearest unit) when
\* dist < 60 and stays otherwise; at distance 0 it moves by 0.8 * d, at
\* distance 30 by 0.4 * d, at distance 60 or more not at all.
C3_Falloff ==
    [][LiquifyStep =>
          LET cur == transformCoords(view.shape, lastPos')
              prv == transformCoords(view.shape, lastPos)
              dx  == cur.x - prv.x
              dy  == cur.y - prv.y
          IN  \A k \in 1..Len(view.shape.vertices) :
                LET v    == view.shape.vertices[k]
                    w    == shape'.vertices[k]
                    d2   == (v.x - cur.x) * (v.x - cur.x)
                              + (v.y - cur.y) * (v.y - cur.y)
                    dist == ISqrt(d2)
                IN  /\ d2 >= Radius * Radius => w = v
                    /\ d2 < Radius * Radius =>
                         /\ Abs(10 * Radius * (w.x - v.x)
                                  - 8 * dx * (Radius - dist)) <= 5 * Radius
                         /\ Abs(10 * Radius * (w.y - v.y)
                                  - 8 * dy * (Radius - dist)) <= 5 * Radius
                    /\ d2 = 0 =>
                         10 * (w.x - v.x) = 8 * dx /\ 10 * (w.y - v.y) = 8 * dy
                    /\ d2 = Px(30) * Px(30) =>
                         10 * (w.x - v.x) = 4 * dx /\ 10 * (w.y - v.y) = 4 * dy
                    /\ d2 = Px(60) * Px(60) => w = v]_vars

\* a drag from (460,150) to (450,180) has moved the vertex generated at
\* (450,150), 30 pixels from the cursor, by 0.4 * (-10, 30) = (-4, 12)
C3_Witness ==
    /\ last.op = "move"
    /\ last.ran
    /\ lastPos = Pt(Px(450), Px(180))
    /\ shape.rotation = 0 /\ ~shape.flipX /\ ~shape.flipY
    /\ Len(shape.vertices) = 8
    /\ shape.vertices[8] = Pt(Px(446), Px(162))
    /\ steps = 1

\* the vertex that generateRandomShape(0) places at (450,150)
A450 == Pt(Px(450), Px(150))
B460 == Pt(Px(460), Px(150))

\* a liquify step over an untransformed snapshot, dragging from (450,150)
\* to (460,150)
DragAB ==
    /\ LiquifyStep
    /\ view.shape.rotation = 0 /\ ~view.shape.flipX /\ ~view.shape.flipY
    /\ lastPos = A450
    /\ lastPos' = B460

\* C4 as stated: the drag from (450,150) to (460,150) moves a vertex at
\* (450,150) to (458,150) and leaves a vertex 100 pixels or more from the
\* cursor unchanged.
C4_Original ==
    [][DragAB =>
          \A k \in 1..Len(view.shape.vertices) :
             LET v == view.shape.vertices[k]
             IN  /\ v = A450 => shape'.vertices[k] = Pt(Px(458), Px(150))
                 /\ Dist(v, B460) >= Px(100) => shape'.vertices[k] = v]_vars

\* C4 amended: the distance is taken from the current point (460,150), so
\* the vertex at (450,150) is 10 pixels away and moves by
\* 10 * (1 - 10/60) * 0.8 = 6 2/3 pixels in x, to (456 2/3, 150); a vertex
\* 100 pixels or more from the cursor is unchanged.
C4_DragMovesVertex ==
    [][DragAB =>
          \A k \in 1..Len(view.shape.vertices) :
             LET v == view.shape.vertices[k]
                 w == shape'.vertices[k]
             IN  /\ v = A450 =>
                       /\ Abs(3 * (w.x - Px(450)) - Px(20)) <= 2
                       /\ w.y = Px(150)
                 /\ Dist(v, B460) >= Px(100) => w = v]_vars

C4_Witness ==
    /\ last.op = "move"
    /\ last.ran
    /\ lastPos = B460
    /\ shape # NULL
    /\ shape.rotation = 0 /\ ~shape.flipX /\ ~shape.flipY
    /\ Len(shape.vertices) = 8
    /\ Abs(3 * (shape.vertices[8].x - Px(450)) - Px(20)) <= 2
    /\ shape.vertices[8].y = Px(150)
    /\ shape.vertices[5] = generateRandomShape(0).vertices[5]
    /\ view.shape = generateRandomShape(0)

\* C5 as stated: the first move event after a press, in liquify mode,
\* leaves the shape as it is.
C5_Original ==
    [][(last.fresh /\ last'.op = "move" /\ view.mode = "liquify")
          => shape' = shape]_vars

\* C5 amended: a press replaces no vertex and records its coordinate as the
\* prior sample; a liquify move deforms only when a prior sample is
\* recorded, and the first move after a press does find one (the press
\* point), so it deforms by the displacement from the press point.
C5_NeedsPriorSample ==
    [][/\ last'.op = "down" =>
            /\ lastPos' # NULL
            /\ shape # NULL => shape' = shape
       /\ (last'.op = "move" /\ lastPos = NULL) => shape' = shape
       /\ (last'.op = "move" /\ last.fresh /\ view.isInteracting) =>
            lastPos # NULL]_vars

\* a liquify-mode move handled while the snapshot still said "interacting"
\* found no prior sample and left the shape alone
C5_Witness ==
    /\ last.op = "move"
    /\ ~last.ran
    /\ view.mode = "liquify"
    /\ view.isInteracting
    /\ ~isInteracting
    /\ view.shape # NULL
    /\ shape = view.shape
    /\ lastPos # NULL

\* C6: a liquify step leaves color, rotation, flipX and flipY as they are
\* in the shape it replaces.
C6_LiquifyFrame ==
    [][LiquifyStep =>
          /\ shape'.color = shape.color
          /\ shape'.rotation = shape.rotation
          /\ shape'.flipX = shape.flipX
          /\ shape'.flipY = shape.flipY]_vars

C6_Witness ==
    /\ last.op = "move"
    /\ last.ran
    /\ shape # NULL
    /\ shape.vertices # view.shape.vertices
    /\ shape.rotation = 90
    /\ shape.flipY
    /\ shape.color = generateRandomShape(0).color

\* C7: while a shape exists its rotation is 0, 90, 180 or 270; a rotate
\* advances it by 90 modulo 360 and changes nothing else, so four rotates
\* in a row bring the shape back.
C7_RotationWraps ==
    /\ [](shape # NULL =>
            /\ shape.rotation \in Quarter
            /\ rotateUpdater(rotateUpdater(rotateUpdater(
                   rotateUpdater(shape)))) = shape)
    /\ [][(last'.op = "rotate" /\ shape # NULL) =>
            shape' = [shape EXCEPT !.rotation = (shape.rotation + 90) % 360]
         ]_vars

\* the fourth rotate in a row has wrapped the rotation from 270 to 0
C7_Witness ==
    /\ last.op = "rotate"
    /\ shape # NULL
    /\ shape.rotation = 0
    /\ steps >= 4

\* C8: while a shape exists, vertices and points have the same length,
\* between 6 and 9, and point k carries the position of vertex k and the
\* handles vertex k -/+ 0.3 * (next - previous), neighbours taken cyclically.
C8_PointsInSync ==
    shape # NULL =>
        LET n == Len(shape.vertices)
        IN  /\ Len(shape.points) = n
            /\ n >= 3
            /\ n \in 6..9
            /\ \A k \in 1..n :
                 LET v  == shape.vertices[k]
                     pv == shape.vertices[IF k = 1 THEN n ELSE k - 1]
                     nx == shape.vertices[IF k = n THEN 1 ELSE k + 1]
                     p  == shape.points[k]
                 IN  /\ p.x = v.x /\ p.y = v.y
                     /\ Abs(10 * (p.cp2x - v.x) - 3 * (nx.x - pv.x)) <= 5
                     /\ Abs(10 * (p.cp2y - v.y) - 3 * (nx.y - pv.y)) <= 5
                     /\ p.cp1x + p.cp2x = 2 * v.x
                     /\ p.cp1y + p.cp2y = 2 * v.y

\* a liquify move has just replaced the vertices
C8_Witness ==
    /\ last.op = "move"
    /\ last.ran
    /\ shape # NULL
    /\ shape.vertices # view.shape.vertices
    /\ Len(shape.vertices) = 8

\* C9: a move event changes the shape only in liquify mode and the ink
\* layer only in draw or erase mode.
C9_MoveGatedByMode ==
    [][last'.op = "move" =>
          /\ view.mode # "liquify" => shape' = shape
          /\ view.mode \notin {"draw", "erase"} => ink' = ink /\ ctx' = ctx
          /\ view.mode = mode]_vars

\* a draw-mode move has put ink on the layer under an existing shape
C9_Witness ==
    /\ last.op = "move"
    /\ last.ran
    /\ mode = "draw"
    /\ ink # {}
    /\ shape # NULL

\* C10: the clear action empties the ink layer and leaves the shape alone.
C10_ClearKeepsShape ==
    [][last'.op = "clear" => ink' = {} /\ shape' = shape]_vars

\* a clear has wiped a layer that carried ink, under an existing shape
C10_Witness ==
    /\ last.op = "clear"
    /\ last.ran
    /\ ink = {}
    /\ shape # NULL

\* C11: New Shape, from any state, installs a freshly generated shape
\* (6 to 9 vertices placed in angular order around the centre at the
\* generator's radii, points derived from them, rotation 0, no flips) and
\* empties the ink layer.
C11_Regenerate ==
    [][last'.op = "newShape" =>
          LET n == Len(shape'.vertices)
              c == Px(CANVAS_SIZE) \div 2
          IN  /\ shape' # NULL
              /\ n \in 6..9
              /\ Len(shape'.points) = n
              /\ shape'.rotation = 0
              /\ ~shape'.flipX
              /\ ~shape'.flipY
              /\ shape'.color \in 1..NUM_COLORS
              /\ ink' = {}
              \* vertex 1 lies on the positive x axis, every vertex between
              \* 0.1 * S and 0.4 * S (+ rounding) from the centre
              /\ shape'.vertices[1].y = c
              /\ shape'.vertices[1].x > c
              /\ \A k \in 1..n :
                    LET r == Dist(shape'.vertices[k], Pt(c, c))
                    IN  r >= Px(60) - 2 /\ r <= Px(240) + 2]_vars

\* New Shape has replaced a shape under a layer that carried ink
C11_Witness ==
    /\ last.op = "newShape"
    /\ last.ran
    /\ ink = {}
    /\ shape # NULL
    /\ Len(shape.vertices) = 9
    /\ steps >= 3

\* C12: from the initial state, where no shape exists, the mount effect
\* eventually generates one without any user action; until then the
\* updaters of rotate and flip map the absent shape to the absent shape and
\* liquify moves do nothing, so a shape that appears during such an event
\* is the untouched output of the mount effect flushed with it.
C12_Startup ==
    /\ <>(shape # NULL)
    /\ [][(shape = NULL
             /\ last'.op \in {"rotate", "flipH", "flipV", "move"}) =>
            /\ rotateUpdater(shape) = NULL
            /\ flipXUpdater(shape) = NULL
            /\ flipYUpdater(shape) = NULL
            /\ last'.op = "move" => shape' = NULL /\ ~last'.ran
            /\ shape' # NULL =>
                 /\ effectPending /\ ~effectPending'
                 /\ shape'.rotation = 0
                 /\ ~shape'.flipX
                 /\ ~shape'.flipY]_vars

\* a rotate handled before the mount effect had run: the shape of the
\* effect flushed with it is not rotated
C12_Witness ==
    /\ last.op = "rotate"
    /\ steps = 1
    /\ shape # NULL
    /\ shape.rotation = 0
    /\ ~effectPending

\* C13: the path drawn for a shape with n points has exactly n cubic
\* segments; segment k starts where the pen is (point k), uses point k's
\* outgoing handle and the next point's incoming handle and ends at the
\* next point, the last one ending at point 1, where the path started.
C13_ClosedPath ==
    shape # NULL =>
        LET n    == Len(shape.points)
            path == drawPath(shape.points)
            Pen(k) == IF k = 1 THEN path.start
                      ELSE Pt(path.segs[k - 1].x, path.segs[k - 1].y)
        IN  /\ Len(path.segs) = n
            /\ \A k \in 1..n :
                 LET a == shape.points[k]
                     b == shape.points[IF k = n THEN 1 ELSE k + 1]
                     g == path.segs[k]
                 IN  /\ Pen(k) = Pt(a.x, a.y)
                     /\ g.c1x = a.cp2x /\ g.c1y = a.cp2y
                     /\ g.c2x = b.cp1x /\ g.c2y = b.cp1y
                     /\ g.x = b.x /\ g.y = b.y
            /\ Pt(path.segs[n].x, path.segs[n].y) = path.start

\* a deformed nine-point shape has been rendered
C13_Witness ==
    /\ shape # NULL
    /\ view.shape = shape
    /\ Len(shape.points) = 9
    /\ last.op = "render"
    /\ shape.vertices # generateRandomShape(1).vertices

\* C14: on an existing shape, Rotate changes only the rotation, Flip H
\* only the horizontal flag and Flip V only the vertical flag (vertices,
\* control points, colour, the other transform fields and the ink are
\* kept), and applying the same flip twice gives back the same shape.
C14_OwnFieldOnly ==
    /\ [](shape # NULL =>
            /\ flipXUpdater(flipXUpdater(shape)) = shape
            /\ flipYUpdater(flipYUpdater(shape)) = shape)
    /\ [][(shape # NULL /\ last'.op \in {"rotate", "flipH", "flipV"}) =>
            /\ shape' # NULL
            /\ shape'.vertices = shape.vertices
            /\ shape'.points = shape.points
            /\ shape'.color = shape.color
            /\ ink' = ink
            /\ last'.op = "rotate" =>
                 /\ shape'.rotation # shape.rotation
                 /\ shape'.flipX = shape.flipX
                 /\ shape'.flipY = shape.flipY
            /\ last'.op = "flipH" =>
                 /\ shape'.flipX = ~shape.flipX
                 /\ shape'.rotation = shape.rotation
                 /\ shape'.flipY = shape.flipY
            /\ last'.op = "flipV" =>
                 /\ shape'.flipY = ~shape.flipY
                 /\ shape'.rotation = shape.rotation
                 /\ shape'.flipX = shape.flipX]_vars

\* a second Flip H on a rotated shape has brought flipX back to false
C14_Witness ==
    /\ last.op = "flipH"
    /\ shape # NULL
    /\ ~shape.flipX
    /\ shape.rotation = 90

\* C15: every liquify move applies its step to the vertices produced by the
\* previous step (the current shape state), keeping the other fields, also
\* when several moves are handled before the next render.
C15_Accumulates ==
    [][LiquifyStep =>
         /\ shape' # NULL
         /\ shape'.vertices = newVertices(shape, lastPos', lastPos)
         /\ shape'.rotation = shape.rotation
         /\ shape'.flipX = shape.flipX
         /\ shape'.flipY = shape.flipY
         /\ shape'.color = shape.color]_vars

\* C16: for every vertex sequence of length n >= 3 and every index, the
\* first and the last included, the derived point sits on its vertex, its
\* outgoing handle is the vertex plus 0.3 times (next - previous) with both
\* neighbours taken cyclically, its incoming handle is the vertex minus the
\* same offset, the output has the input's length and order, and the two
\* handles sum to twice the vertex.
C16_CyclicHandles ==
    last.op = "derive" =>
        LET v == shape.vertices
            n == Len(v)
        IN  /\ n >= 3
            /\ Len(shape.points) = n
            /\ \A k \in 1..n :
                 LET pv == v[IF k = 1 THEN n ELSE k - 1]
                     nx == v[IF k = n THEN 1 ELSE k + 1]
                     p  == shape.points[k]
                 IN  /\ Pt(p.x, p.y) = v[k]
                     /\ Abs(10 * (p.cp2x - v[k].x) - 3 * (nx.x - pv.x)) <= 5
                     /\ Abs(10 * (p.cp2y - v[k].y) - 3 * (nx.y - pv.y)) <= 5
                     /\ Abs(10 * (v[k].x - p.cp1x) - 3 * (nx.x - pv.x)) <= 5
                     /\ Abs(10 * (v[k].y - p.cp1y) - 3 * (nx.y - pv.y)) <= 5
                     /\ p.cp1x + p.cp2x = 2 * v[k].x
                     /\ p.cp1y + p.cp2y = 2 * v[k].y

\* a triangle of three different vertices has been derived, so that the
\* first point's previous neighbour is the last vertex
C16_Witness ==
    /\ last.op = "derive"
    /\ Len(shape.vertices) = 3
    /\ shape.vertices[1] # shape.vertices[3]
    /\ shape.vertices[2] # shape.vertices[3]
    /\ shape.points[1].cp2x # shape.points[1].x

\* C17: a move event delivered while no interaction session is open
\* (before any press, or after a release or a mouse-leave and before the
\* next press) changes neither the shape nor the ink layer, whatever the
\* mode.
C17_MoveOutsideSession ==
    [][(last'.op = "move" /\ ~isInteracting) =>
         /\ shape' = shape
         /\ ink' = ink]_vars

\* C18: once a shape exists it never becomes null again, whatever step
\* follows (rotate, flip, liquify move, clear, New Shape, mode change,
\* press, release, leave, render).
C18_ShapeStays ==
    [][shape # NULL => shape' # NULL]_vars

\* the pointer has left the canvas over a flipped shape
C18_Witness ==
    /\ last.op = "leave"
    /\ shape # NULL
    /\ shape.flipX
    /\ ~effectPending
    /\ steps >= 3

====
